---- MODULE Spec2Model ----
(***************************************************************************)
(* Model of the chunk codec of common.py (class chunk): encode, make,      *)
(* extract_header, extract and the generator extract_iter.                 *)
(*                                                                         *)
(* Byte strings are sequences of integers 0..255, text is a sequence of    *)
(* Unicode code points.  A Python value handed to the encoder is a record  *)
(* with a single field that names its type:                                *)
(*   [b |-> bytes]  [s |-> text]  [n |-> integer]                          *)
(*   [d |-> entries]   a dict, as its <<key, value>> entries in insertion  *)
(*                     order (keys are distinct)                           *)
(*   [l |-> items]     a list or tuple of <<id, contents>> pairs           *)
(*   [o |-> name]      a value of any other type (None, float, ...)        *)
(* A call returns [ok |-> value] or raises, [err |-> exception name].      *)
(***************************************************************************)
EXTENDS Integers, Sequences, FiniteSets

VARIABLES
    pc,        \* position of the driver: which call has been made
    id,        \* argument id of chunk.make
    contents,  \* argument contents of chunk.make / chunk.encode
    result,    \* outcome of the last encoder call
    data,      \* argument data of chunk.extract / chunk.extract_iter
    parsed,    \* outcome of the last chunk.extract call
    it_pc,     \* generator of extract_iter: "idle", "SCANNING", "DONE" or "RAISED"
    it_data,   \* the generator's local variable data
    it_items,  \* the generator's local variable items
    yielded,   \* the pairs the generator has yielded so far, in order
    stops,     \* number of times a finished generator was asked for more
    stream,    \* the (id, contents) pairs a sender puts on the wire
    tail       \* bytes that follow the sender's last chunk

vars == <<pc, id, contents, result, data, parsed, it_pc, it_data, it_items, yielded,
          stops, stream, tail>>

(***************************************************************************)
(* Bounds of the model.                                                    *)
(***************************************************************************)
\* largest number of nodes (leaves and containers) of an encoder input
MaxSize == 3
\* longest buffer handed to the decoder
MaxDataLen == 16
\* most chunks in a stream, longest tail after them
MaxChunks == 2
MaxTailLen == 8
\* how often a finished generator is resumed
MaxStops == 2

(***************************************************************************)
(* Constants of the wire format.                                           *)
(***************************************************************************)
\* "<4sI": the id field is 4 bytes wide
IdSize == 4
\* "<4sI": 4 + 4 bytes of header
HeaderSize == 8
\* "I": an unsigned 32-bit integer, two 16-bit halves; n fits when its upper
\* half, n \div 2^16, is below 2^16
HalfWord == 65536

Ok(v) == [ok |-> v]
Err(e) == [err |-> e]
IsOk(r) == "ok" \in DOMAIN r
IsErr(r) == "err" \in DOMAIN r
None == [none |-> TRUE]
Nil == [nil |-> TRUE]

IsBytes(v) == "b" \in DOMAIN v
IsStr(v) == "s" \in DOMAIN v
IsInt(v) == "n" \in DOMAIN v
IsDict(v) == "d" \in DOMAIN v
IsList(v) == "l" \in DOMAIN v

RECURSIVE Zeros(_)
Zeros(k) == IF k <= 0 THEN <<>> ELSE <<0>> \o Zeros(k - 1)

\* bytes.__lt__: lexicographic order by byte value
BytesLess(a, b) ==
    \/ /\ Len(a) < Len(b)
       /\ \A i \in 1..Len(a) : a[i] = b[i]
    \/ \E i \in 1..Len(a) :
          /\ i <= Len(b)
          /\ a[i] < b[i]
          /\ \A j \in 1..(i - 1) : a[j] = b[j]

\* sorted(keys): the keys in ascending order
RECURSIVE sorted(_)
sorted(keys) ==
    IF keys = {} THEN <<>>
    ELSE LET least == CHOOSE k \in keys : \A o \in keys \ {k} : BytesLess(k, o)
         IN  <<least>> \o sorted(keys \ {least})

\* contents.keys() and contents[key] of a dict
Keys(entries) == {entries[i][1] : i \in 1..Len(entries)}
Lookup(entries, key) ==
    entries[CHOOSE i \in 1..Len(entries) : entries[i][1] = key][2]

\* UTF-8 encoding of one code point; lone surrogates cannot be encoded
Utf8Char(cp) ==
    IF cp < 128 THEN Ok(<<cp>>)
    ELSE IF cp < 2048 THEN Ok(<<192 + (cp \div 64), 128 + (cp % 64)>>)
    ELSE IF cp >= 55296 /\ cp <= 57343 THEN Err("UnicodeEncodeError")
    ELSE IF cp < 65536
         THEN Ok(<<224 + (cp \div 4096), 128 + ((cp \div 64) % 64), 128 + (cp % 64)>>)
    ELSE Ok(<<240 + (cp \div 262144), 128 + ((cp \div 4096) % 64),
              128 + ((cp \div 64) % 64), 128 + (cp % 64)>>)

\* str.encode(): UTF-8, strict
RECURSIVE str_encode(_)
str_encode(s) ==
    IF s = <<>> THEN Ok(<<>>)
    ELSE LET c == Utf8Char(Head(s))
         IN  IF IsErr(c) THEN c
             ELSE LET r == str_encode(Tail(s))
                  IN  IF IsErr(r) THEN r ELSE Ok(c.ok \o r.ok)

\* "%d" % n for n >= 0: the decimal digits, most significant first
RECURSIVE NatDigits(_)
NatDigits(n) ==
    IF n < 10 THEN <<48 + n>> ELSE NatDigits(n \div 10) \o <<48 + (n % 10)>>

\* the digits without the sign
int_format_unsigned(n) == IF n < 0 THEN NatDigits(0 - n) ELSE NatDigits(n)

\* ("%d" % n).encode(): a minus sign for negative n, then the digits
int_format(n) == IF n < 0 THEN <<45>> \o NatDigits(0 - n) ELSE NatDigits(n)

\* the "4s" field of struct.pack: cut to 4 bytes, or filled up with zero bytes
Pack4s(tag) ==
    IF Len(tag) >= IdSize THEN SubSeq(tag, 1, IdSize)
    ELSE tag \o Zeros(IdSize - Len(tag))

\* the "<I" field of struct.pack: 4 bytes, least significant first
PackU32(n) ==
    <<n % 256, (n \div 256) % 256, (n \div 65536) % 256, (n \div 16777216) % 256>>

\* struct.pack("<4sI", tag, n)
struct_pack(tag, n) ==
    IF n < 0 \/ (n \div HalfWord) >= HalfWord THEN Err("struct.error")
    ELSE Ok(Pack4s(tag) \o PackU32(n))

\* the "<I" field of struct.unpack
UnpackU32(b) == b[1] + 256 * b[2] + 65536 * b[3] + 16777216 * b[4]

\* struct.unpack("<4sI", data)
struct_unpack(hdr) == <<SubSeq(hdr, 1, IdSize), UnpackU32(SubSeq(hdr, IdSize + 1, HeaderSize))>>

RECURSIVE encode(_), make(_, _), join_dict(_, _), join_list(_)

\* b"".join(chunk.make(key, contents[key]) for key in keys): the first
\* child that raises ends the join
join_dict(entries, keys) ==
    IF keys = <<>> THEN Ok(<<>>)
    ELSE LET c == make(Head(keys), Lookup(entries, Head(keys)))
         IN  IF IsErr(c) THEN c
             ELSE LET r == join_dict(entries, Tail(keys))
                  IN  IF IsErr(r) THEN r ELSE Ok(c.ok \o r.ok)

\* the list taken for a dict: children in ascending order of their ids
join_list_sorted(items) == join_dict(items, sorted(Keys(items)))

\* b"".join(chunk.make(*item) for item in contents)
join_list(items) ==
    IF items = <<>> THEN Ok(<<>>)
    ELSE LET c == make(Head(items)[1], Head(items)[2])
         IN  IF IsErr(c) THEN c
             ELSE LET r == join_list(Tail(items))
                  IN  IF IsErr(r) THEN r ELSE Ok(c.ok \o r.ok)

\* the dict walked in insertion order, without sorted()
encode_unsorted(v) ==
    IF IsStr(v) THEN str_encode(v.s)
    ELSE IF IsBytes(v) THEN Ok(v.b)
    ELSE IF IsDict(v) THEN join_list(v.d)
    ELSE IF IsList(v) THEN join_list(v.l)
    ELSE IF IsInt(v) THEN Ok(int_format(v.n))
    ELSE Err("TypeError")

\* the branch for int left out
encode_noint(v) ==
    IF IsStr(v) THEN str_encode(v.s)
    ELSE IF IsBytes(v) THEN Ok(v.b)
    ELSE IF IsDict(v) THEN join_dict(v.d, sorted(Keys(v.d)))
    ELSE IF IsList(v) THEN join_list(v.l)
    ELSE Err("TypeError")

\* chunk.encode(contents)
encode(v) ==
    IF IsStr(v) THEN str_encode(v.s)
    ELSE IF IsBytes(v) THEN Ok(v.b)
    ELSE IF IsDict(v) THEN join_dict(v.d, sorted(Keys(v.d)))
    ELSE IF IsList(v) THEN join_list(v.l)
    ELSE IF IsInt(v) THEN Ok(int_format(v.n))
    ELSE Err("TypeError")

\* the length taken from the contents as given (characters of a text), not
\* from the encoded payload
make_rawlen(tag, v) ==
    LET c == encode(v)
    IN  IF IsErr(c) THEN c
        ELSE LET h == struct_pack(tag, IF IsStr(v) THEN Len(v.s) ELSE Len(c.ok))
             IN  IF IsErr(h) THEN h ELSE Ok(h.ok \o c.ok)

\* chunk.make(id, contents)
make(tag, v) ==
    LET c == encode(v)
    IN  IF IsErr(c) THEN c
        ELSE LET h == struct_pack(tag, Len(c.ok))
             IN  IF IsErr(h) THEN h ELSE Ok(h.ok \o c.ok)

\* chunk.extract_header(data)
extract_header(hdr) ==
    IF Len(hdr) # HeaderSize THEN Err("AssertionError")
    ELSE Ok(struct_unpack(hdr))

\* a chunk that ends exactly at the end of the buffer is refused
extract_strict(buf) ==
    IF Len(buf) >= HeaderSize
    THEN LET h == extract_header(SubSeq(buf, 1, HeaderSize))
         IN  IF IsErr(h) THEN h
             ELSE LET length == h.ok[2]
                  IN  IF length + HeaderSize < Len(buf)
                      THEN [some |-> <<h.ok[1],
                                       SubSeq(buf, HeaderSize + 1, length + HeaderSize),
                                       SubSeq(buf, length + HeaderSize + 1, Len(buf))>>]
                      ELSE None
    ELSE None

\* the header is parsed from 7 bytes on
extract_short(buf) ==
    IF Len(buf) >= HeaderSize - 1
    THEN LET h == extract_header(SubSeq(buf, 1, IF Len(buf) < HeaderSize
                                                 THEN Len(buf) ELSE HeaderSize))
         IN  IF IsErr(h) THEN h
             ELSE LET length == h.ok[2]
                  IN  IF length + HeaderSize <= Len(buf)
                      THEN [some |-> <<h.ok[1],
                                       SubSeq(buf, HeaderSize + 1, length + HeaderSize),
                                       SubSeq(buf, length + HeaderSize + 1, Len(buf))>>]
                      ELSE None
    ELSE None

\* the rest starts after the payload's length, the header not counted
extract_rest_off(buf) ==
    IF Len(buf) >= HeaderSize
    THEN LET h == extract_header(SubSeq(buf, 1, HeaderSize))
         IN  IF IsErr(h) THEN h
             ELSE LET length == h.ok[2]
                  IN  IF length + HeaderSize <= Len(buf)
                      THEN [some |-> <<h.ok[1],
                                       SubSeq(buf, HeaderSize + 1, length + HeaderSize),
                                       SubSeq(buf, length + 1, Len(buf))>>]
                      ELSE None
    ELSE None

\* chunk.extract(data): [some |-> <<id, contents, rest>>], None, or a raise
extract(buf) ==
    IF Len(buf) >= HeaderSize
    THEN LET h == extract_header(SubSeq(buf, 1, HeaderSize))
         IN  IF IsErr(h) THEN h
             ELSE LET length == h.ok[2]
                  IN  IF length + HeaderSize <= Len(buf)
                      THEN [some |-> <<h.ok[1],
                                       SubSeq(buf, HeaderSize + 1, length + HeaderSize),
                                       SubSeq(buf, length + HeaderSize + 1, Len(buf))>>]
                      ELSE None
    ELSE None

(***************************************************************************)
(* Inputs.                                                                 *)
(***************************************************************************)
\* all sequences over S of length at most n
SeqsUpTo(S, n) == UNION {[1..k -> S] : k \in 0..n}

\* ids: two well-formed ones that differ late, one too short, one too long
GoodIds == {<<65, 65, 65, 66>>, <<65, 65, 66, 65>>}
ShortId == <<65, 66, 67>>
LongId == <<65, 66, 67, 68, 69>>
NestedIds == GoodIds \cup {ShortId}
Ids == NestedIds \cup {LongId}

\* values without children: b"", b"5", "é", a lone surrogate "\ud800",
\* 5, -12, 0 and None
Leaves ==
    {[b |-> <<>>], [b |-> <<53>>],
     [s |-> <<233>>], [s |-> <<55296>>],
     [n |-> 5], [n |-> 0 - 12], [n |-> 0],
     [o |-> "NoneType"]}

DistinctKeys(items) ==
    \A i, j \in 1..Len(items) : i # j => items[i][1] # items[j][1]

\* the values of exactly n nodes, and the item sequences whose values have n
\* nodes together.  Where sets are united, each part is paired with a number
\* of its own and the numbers are dropped from the union.
RECURSIVE ValuesOfSize(_), ItemSeqs(_)
ItemSeqs(n) ==
    IF n = 0 THEN {<<>>}
    ELSE {x[2] : x \in UNION {{k} \X {<<<<t, v>>>> \o rest :
                    t \in NestedIds, v \in ValuesOfSize(k), rest \in ItemSeqs(n - k)}
                : k \in 1..n}}
ValuesOfSize(n) ==
    {x[2] : x \in
        ({1} \X (IF n = 1 THEN Leaves ELSE {}))
        \cup ({2} \X {[d |-> items] : items \in {i \in ItemSeqs(n - 1) : DistinctKeys(i)}})
        \cup ({3} \X {[l |-> items] : items \in ItemSeqs(n - 1)})}

Values == {x[2] : x \in UNION {{n} \X ValuesOfSize(n) : n \in 1..MaxSize}}

\* buffers handed to the decoder: every byte string over two byte values
DataBytes == {0, 1}
Buffers == SeqsUpTo(DataBytes, MaxDataLen)

\* streams: chunks AAAA / BBBB with contents b"" / b"x", then a tail that
\* does not parse
StreamIds == {<<65, 65, 65, 65>>, <<66, 66, 66, 66>>}
StreamContents == {<<>>, <<120>>}
Streams == SeqsUpTo(StreamIds \X StreamContents, MaxChunks)
TailBytes == {0, 2}
Tails == {t \in SeqsUpTo(TailBytes, MaxTailLen) : extract(t) = None}

(***************************************************************************)
(* The calls.                                                              *)
(***************************************************************************)
\* chunk.encode(contents)
CallEncode ==
    /\ pc = "start"
    /\ result' = encode(contents)
    /\ pc' = "encoded"
    /\ UNCHANGED <<id, contents, data, parsed, it_pc, it_data, it_items, yielded,
                   stops, stream, tail>>

\* chunk.make(id, contents)
CallMake ==
    /\ pc = "start"
    /\ result' = make(id, contents)
    /\ pc' = "made"
    /\ UNCHANGED <<id, contents, data, parsed, it_pc, it_data, it_items, yielded,
                   stops, stream, tail>>

\* chunk.extract(chunk.make(id, contents))
ExtractMade ==
    /\ pc = "made"
    /\ IsOk(result)
    /\ data' = result.ok
    /\ parsed' = extract(result.ok)
    /\ pc' = "parsed"
    /\ UNCHANGED <<id, contents, result, it_pc, it_data, it_items, yielded,
                   stops, stream, tail>>

\* chunk.extract(data)
CallExtract ==
    /\ pc = "ready"
    /\ parsed' = extract(data)
    /\ pc' = "parsed"
    /\ UNCHANGED <<id, contents, result, data, it_pc, it_data, it_items, yielded,
                   stops, stream, tail>>

\* the chunks of the stream, made one after the other, and the tail
RECURSIVE make_all(_)
make_all(pairs) ==
    IF pairs = <<>> THEN <<>>
    ELSE make(Head(pairs)[1], [b |-> Head(pairs)[2]]).ok \o make_all(Tail(pairs))

BuildStream ==
    /\ pc = "start"
    /\ data' = make_all(stream) \o tail
    /\ pc' = "ready"
    /\ UNCHANGED <<id, contents, result, parsed, it_pc, it_data, it_items, yielded,
                   stops, stream, tail>>

\* chunk.extract_iter(data): the call creates the generator, no code runs yet
IterCreate ==
    /\ pc = "ready"
    /\ it_pc' = "SCANNING"
    /\ it_data' = data
    /\ it_items' = Nil
    /\ pc' = "iterating"
    /\ UNCHANGED <<id, contents, result, data, parsed, yielded, stops, stream, tail>>

\* data = items[2] left out: the generator scans the same bytes again
iter_step_stale(d, items) ==
    LET got == extract(d)
    IN  [data |-> d,
         items |-> got,
         pc |-> IF IsErr(got) THEN "RAISED"
                ELSE IF got = None THEN "DONE" ELSE "SCANNING"]

\* what the resumed generator does up to its next yield or its end
iter_step(d, items) ==
    LET cur == IF items = Nil THEN d ELSE items.some[3]
        got == extract(cur)
    IN  [data |-> cur,
         items |-> got,
         pc |-> IF IsErr(got) THEN "RAISED"
                ELSE IF got = None THEN "DONE" ELSE "SCANNING"]

\* next() on the running generator
IterNext ==
    /\ it_pc = "SCANNING"
    /\ LET step == iter_step(it_data, it_items)
       IN  /\ it_data' = step.data
           /\ it_items' = step.items
           /\ it_pc' = step.pc
           /\ yielded' = IF step.pc = "SCANNING"
                         THEN Append(yielded, <<step.items.some[1], step.items.some[2]>>)
                         ELSE yielded
    /\ UNCHANGED <<pc, id, contents, result, data, parsed, stops, stream, tail>>

\* next() on the finished generator: StopIteration again
IterStop ==
    /\ it_pc = "DONE"
    /\ stops < MaxStops
    /\ stops' = stops + 1
    /\ UNCHANGED <<pc, id, contents, result, data, parsed, it_pc, it_data, it_items,
                   yielded, stream, tail>>

Idle ==
    /\ result = Nil
    /\ parsed = Nil
    /\ it_pc = "idle"
    /\ it_data = <<>>
    /\ it_items = Nil
    /\ yielded = <<>>
    /\ stops = 0

\* the encoder, on every id and every value
InitEnc ==
    /\ pc = "start"
    /\ id \in Ids
    /\ contents \in Values
    /\ data = <<>>
    /\ stream = <<>>
    /\ tail = <<>>
    /\ Idle

NextEnc == CallEncode \/ CallMake \/ ExtractMade

SpecEnc == InitEnc /\ [][NextEnc]_vars

\* the decoder, on every buffer
InitDec ==
    /\ pc = "ready"
    /\ id = <<>>
    /\ contents = Nil
    /\ data \in Buffers
    /\ stream = <<>>
    /\ tail = <<>>
    /\ Idle

NextDec == CallExtract \/ IterCreate \/ IterNext \/ IterStop

SpecDec == InitDec /\ [][NextDec]_vars

\* a sender's stream, decoded
InitStream ==
    /\ pc = "start"
    /\ id = <<>>
    /\ contents = Nil
    /\ data = <<>>
    /\ stream \in Streams
    /\ tail \in Tails
    /\ Idle

NextStream == BuildStream \/ IterCreate \/ IterNext \/ IterStop

SpecStream == InitStream /\ [][NextStream]_vars

(***************************************************************************)
(* Vocabulary of the properties.                                           *)
(***************************************************************************)
\* the reorderings of a sequence of items
Orderings(items) ==
    LET n == Len(items)
    IN  {[i \in 1..n |-> items[f[i]]] :
            f \in {g \in [1..n -> 1..n] : \A i, j \in 1..n : i # j => g[i] # g[j]}}

\* the ids of the items ascend strictly, by byte value
Ascending(items) ==
    \A i \in 1..Len(items) : \A j \in (i + 1)..Len(items) :
        BytesLess(items[i][1], items[j][1])

\* the chunk of each item, as chunk.make returns or raises it
ChildChunks(items) == [i \in 1..Len(items) |-> make(items[i][1], items[i][2])]
AllOk(rs) == \A i \in 1..Len(rs) : IsOk(rs[i])

\* byte strings laid end to end
RECURSIVE Flatten(_)
Flatten(rs) == IF rs = <<>> THEN <<>> ELSE Head(rs).ok \o Flatten(Tail(rs))

\* a byte string cut into the chunks it consists of, when it consists of chunks
RECURSIVE Split(_)
Split(bytes) ==
    IF bytes = <<>> THEN Ok(<<>>)
    ELSE LET e == extract(bytes)
         IN  IF "some" \notin DOMAIN e THEN Err("not chunks")
             ELSE LET r == Split(e.some[3])
                  IN  IF IsErr(r) THEN r
                      ELSE Ok(<<<<e.some[1], e.some[2]>>>> \o r.ok)

ItemsOf(v) == IF IsDict(v) THEN v.d ELSE IF IsList(v) THEN v.l ELSE <<>>

\* the payload of a dict or list holds one well-framed chunk per item, each
\* with the item's id and the item's encoded contents, and so on downwards
RECURSIVE Framed(_, _)
Framed(v, payload) ==
    (IsDict(v) \/ IsList(v)) =>
        LET parts == Split(payload)
        IN  /\ IsOk(parts)
            /\ Len(parts.ok) = Len(ItemsOf(v))
            /\ \A i \in 1..Len(ItemsOf(v)) :
                 \E j \in 1..Len(parts.ok) :
                    /\ parts.ok[j][1] = Pack4s(ItemsOf(v)[i][1])
                    /\ Ok(parts.ok[j][2]) = encode(ItemsOf(v)[i][2])
                    /\ Framed(ItemsOf(v)[i][2], parts.ok[j][2])

\* every value in v is bytes, text, an integer, a dict or a list of pairs
RECURSIVE Supported(_)
Supported(v) ==
    /\ "o" \notin DOMAIN v
    /\ \A i \in 1..Len(ItemsOf(v)) : Supported(ItemsOf(v)[i][2])

\* no text in v holds a lone surrogate
RECURSIVE Encodable(_)
Encodable(v) ==
    /\ IsStr(v) => \A i \in 1..Len(v.s) : v.s[i] < 55296 \/ v.s[i] > 57343
    /\ \A i \in 1..Len(ItemsOf(v)) : Encodable(ItemsOf(v)[i][2])

\* every id in v is 4 bytes long
RECURSIVE GoodTags(_)
GoodTags(v) ==
    \A i \in 1..Len(ItemsOf(v)) :
        Len(ItemsOf(v)[i][1]) = IdSize /\ GoodTags(ItemsOf(v)[i][2])

\* the integer a string of ASCII decimal digits, with an optional leading
\* minus sign, denotes
RECURSIVE DigitsValue(_)
DigitsValue(ds) ==
    IF ds = <<>> THEN 0
    ELSE 10 * DigitsValue(SubSeq(ds, 1, Len(ds) - 1)) + (ds[Len(ds)] - 48)
DecimalValue(bs) ==
    IF bs # <<>> /\ bs[1] = 45 THEN 0 - DigitsValue(Tail(bs)) ELSE DigitsValue(bs)
\* digits only, no leading zero, a sign only on a negative number
Canonical(bs) ==
    LET ds == IF bs # <<>> /\ bs[1] = 45 THEN Tail(bs) ELSE bs
    IN  /\ ds # <<>>
        /\ \A i \in 1..Len(ds) : ds[i] >= 48 /\ ds[i] <= 57
        /\ Len(ds) > 1 => ds[1] # 48
        /\ (bs[1] = 45) => DigitsValue(ds) > 0

\* what is left of the buffer for the generator to scan
Remaining ==
    IF "some" \in DOMAIN it_items THEN it_items.some[3] ELSE it_data

(***************************************************************************)
(* The properties.                                                         *)
(***************************************************************************)
\* C1: round trip. chunk.extract of what chunk.make built from a 4-byte id and
\* a bytes payload is (id, payload, b""), never None.
C1_RoundTrip ==
    (pc = "parsed" /\ IsBytes(contents) /\ Len(id) = IdSize) =>
        parsed = [some |-> <<id, contents.b, <<>>>>]

C1_Witness ==
    /\ pc = "parsed"
    /\ IsBytes(contents)
    /\ contents.b # <<>>
    /\ Len(id) = IdSize
    /\ "some" \in DOMAIN parsed

\* C2: streaming. On the chunks of a list of (id, payload) pairs followed by
\* a tail that does not parse, chunk.extract_iter yields the pairs of the list
\* in order, once each, then ends; the tail yields nothing and raises nothing.
C2_Streaming ==
    /\ it_pc \in {"idle", "SCANNING", "DONE"}
    /\ Len(yielded) <= Len(stream)
    /\ yielded = SubSeq(stream, 1, Len(yielded))
    /\ it_pc = "DONE" => yielded = stream

C2_Witness ==
    /\ it_pc = "DONE"
    /\ Len(stream) = 2
    /\ stream[1] # stream[2]
    /\ Len(tail) >= HeaderSize
    /\ yielded = stream

\* C3: tag validation. chunk.make fails on every id that is not exactly 4
\* bytes long.
C3_TagRejected ==
    (pc = "made" /\ Len(id) # IdSize) => IsErr(result)

\* C4: length invariant. What chunk.make returns is id, then the 4-byte
\* little-endian length of the payload, then the payload, 8 + len(payload)
\* bytes in all, and the same holds of every child chunk inside the payload
\* of a dict or a list.
C4_LengthInvariant ==
    (pc = "made" /\ IsOk(result)) =>
        /\ Len(result.ok) >= HeaderSize
        /\ UnpackU32(SubSeq(result.ok, IdSize + 1, HeaderSize))
              = Len(result.ok) - HeaderSize
        /\ Ok(SubSeq(result.ok, HeaderSize + 1, Len(result.ok))) = encode(contents)
        /\ Len(id) = IdSize => SubSeq(result.ok, 1, IdSize) = id
        /\ Framed(contents, SubSeq(result.ok, HeaderSize + 1, Len(result.ok)))

C4_Witness ==
    /\ pc = "made"
    /\ IsOk(result)
    /\ Len(id) = IdSize
    /\ IsDict(contents)
    /\ Len(contents.d) = 1
    /\ IsList(contents.d[1][2])
    /\ Len(contents.d[1][2].l) = 1
    /\ contents.d[1][2].l[1][2] = [s |-> <<233>>]

\* C5: mapping determinism. chunk.encode of a dict does not depend on the
\* order the entries were inserted in: it is the child chunks laid end to end
\* with the keys ascending by byte value.
C5_MappingDeterminism ==
    (pc = "encoded" /\ IsDict(contents)) =>
        \A q \in Orderings(contents.d) :
            /\ encode([d |-> q]) = result
            /\ (Ascending(q) /\ AllOk(ChildChunks(q))) =>
                   result = Ok(Flatten(ChildChunks(q)))

C5_Witness ==
    /\ pc = "encoded"
    /\ IsDict(contents)
    /\ Len(contents.d) = 2
    /\ BytesLess(contents.d[2][1], contents.d[1][1])
    /\ IsOk(result)

\* C6, as claimed: chunk.encode of a list of pairs with 4-byte ids is the child chunks in the
\* order of the list, and every other order of the pairs gives other bytes.
C6_ReorderChanges ==
    (pc = "encoded" /\ IsList(contents) /\ GoodTags(contents) /\ IsOk(result)) =>
        /\ result = Ok(Flatten(ChildChunks(contents.l)))
        /\ \A q \in Orderings(contents.l) :
               q # contents.l => encode([l |-> q]) # result

\* C6, amended: chunk.encode of a list of pairs is the child chunks in the
\* order of the list, and every order of the pairs that puts a different
\* chunk at some position gives other bytes.
C6_OrderPreserved ==
    (pc = "encoded" /\ IsList(contents) /\ IsOk(result)) =>
        /\ result = Ok(Flatten(ChildChunks(contents.l)))
        /\ \A q \in Orderings(contents.l) :
               ChildChunks(q) # ChildChunks(contents.l) => encode([l |-> q]) # result

C6_Witness ==
    /\ pc = "encoded"
    /\ IsList(contents)
    /\ Len(contents.l) = 2
    /\ IsOk(result)
    /\ BytesLess(contents.l[2][1], contents.l[1][1])
    /\ encode([l |-> <<contents.l[2], contents.l[1]>>]) # result

\* C7: insufficient data is a value. chunk.extract never raises; it returns
\* None exactly when the buffer is shorter than 8 bytes or 8 + the
\* little-endian length in bytes 4..7 exceeds the buffer, and otherwise the
\* id, the payload of that length and the rest.
C7_InsufficientIsNone ==
    pc = "parsed" =>
        /\ ~IsErr(parsed)
        /\ parsed = None <=>
              (\/ Len(data) < HeaderSize
               \/ HeaderSize + UnpackU32(SubSeq(data, IdSize + 1, HeaderSize)) > Len(data))
        /\ parsed # None =>
              /\ "some" \in DOMAIN parsed
              /\ parsed.some[1] = SubSeq(data, 1, IdSize)
              /\ Len(parsed.some[2]) = UnpackU32(SubSeq(data, IdSize + 1, HeaderSize))
              /\ data = SubSeq(data, 1, HeaderSize) \o parsed.some[2] \o parsed.some[3]

C7_Witness ==
    /\ pc = "parsed"
    /\ Len(data) > HeaderSize
    /\ parsed = None

C9_NestedComposition ==
    /\ (pc = "made" /\ IsDict(contents) /\ Len(id) = IdSize) =>
          \A q \in Orderings(contents.d) :
              (Ascending(q) /\ AllOk(ChildChunks(q))) =>
                  result = make(id, [b |-> Flatten(ChildChunks(q))])
    /\ (pc = "encoded" /\ IsInt(contents)) =>
          /\ IsOk(result)
          /\ Canonical(result.ok)
          /\ DecimalValue(result.ok) = contents.n
          /\ result = encode([s |-> result.ok])

C9_Witness ==
    /\ pc = "made"
    /\ Len(id) = IdSize
    /\ IsDict(contents)
    /\ Len(contents.d) = 1
    /\ contents.d[1][2] = [n |-> 5]
    /\ result = make(id, [b |-> make(contents.d[1][1], [s |-> <<53>>]).ok])

\* C10: decoder loop. The generator only goes from SCANNING to SCANNING, on a
\* yield, or from SCANNING to DONE; a yield leaves a suffix of the buffer that
\* is at least 8 bytes shorter; a SCANNING generator can always be resumed;
\* there are at most len(data) div 8 yields, and none after DONE.
C10_LoopTerminates ==
    /\ [](Len(yielded) <= Len(data) \div HeaderSize)
    /\ [](it_pc \in {"idle", "SCANNING", "DONE"})
    /\ [](it_pc = "SCANNING" => ENABLED IterNext)
    /\ [](it_pc # "idle" =>
            /\ Len(Remaining) + HeaderSize * Len(yielded) <= Len(data)
            /\ Remaining = SubSeq(data, Len(data) - Len(Remaining) + 1, Len(data)))
    /\ [][/\ it_pc = "SCANNING" =>
               \/ it_pc' = "DONE" /\ yielded' = yielded
               \/ /\ it_pc' = "SCANNING"
                  /\ Len(yielded') = Len(yielded) + 1
                  /\ Len(Remaining') + HeaderSize <= Len(Remaining)
          /\ it_pc = "DONE" => it_pc' = "DONE" /\ yielded' = yielded]_vars

C10_Witness ==
    /\ it_pc = "DONE"
    /\ Len(yielded) = 2
    /\ yielded[1] # yielded[2]
    /\ stops = MaxStops

====
